---- MODULE Spec2Model ----
(***************************************************************************)
(* Model of the command execution harness of src/agent.py: the command     *)
(* normaliser (normalize_command), the risk classifier (is_risky), the     *)
(* confirmation gate (confirm) and the persistent shell session driven by  *)
(* run_commands through the "__CMD_EXIT:" sentinel protocol.               *)
(*                                                                         *)
(* Strings are sequences of one-character strings, so that the string      *)
(* operations of the source (replace, splitlines, rstrip, join, the        *)
(* regular expressions) are computed as the source computes them.          *)
(***************************************************************************)
EXTENDS Integers, Sequences, FiniteSets, TLC

\* ------------------------------------------------------------ characters

DQ == "\""
SQ == "'"
BS == "\\"
NL == "\n"
TAB == "\t"
CR == "\r"
SP == " "
LT == "<"

\* str.isspace / the whitespace str.rstrip() and \s see, within the alphabet.
IsSpace(c) == c \in {SP, TAB, NL, CR}

\* \w of the re module: letters, digits and the underscore.
WordChars ==
    { "a", "b", "c", "d", "e", "f", "g", "h", "i", "j", "k", "l", "m",
      "n", "o", "p", "q", "r", "s", "t", "u", "v", "w", "x", "y", "z",
      "A", "B", "C", "D", "E", "F", "G", "H", "I", "J", "K", "L", "M",
      "N", "O", "P", "Q", "R", "S", "T", "U", "V", "W", "X", "Y", "Z",
      "0", "1", "2", "3", "4", "5", "6", "7", "8", "9", "_" }

IsWord(c) == c \in WordChars

\* ------------------------------------------------------ string operations

\* s[from:] of Python, 1-based.
Drop(s, n) == SubSeq(s, n + 1, Len(s))

\* sub in s
Contains(s, sub) ==
    \E i \in 1 .. (Len(s) - Len(sub) + 1) : SubSeq(s, i, i + Len(sub) - 1) = sub

\* s.startswith(pre)
StartsWith(s, pre) == Len(s) >= Len(pre) /\ SubSeq(s, 1, Len(pre)) = pre

\* s.endswith(suf)
EndsWith(s, suf) ==
    Len(s) >= Len(suf) /\ SubSeq(s, Len(s) - Len(suf) + 1, Len(s)) = suf

\* s.replace(<<a, b>>, <<r>>): every non-overlapping occurrence, left to right.
RECURSIVE Replace2(_, _, _, _)
Replace2(s, a, b, r) ==
    IF s = <<>> THEN <<>>
    ELSE IF Len(s) >= 2 /\ s[1] = a /\ s[2] = b
         THEN <<r>> \o Replace2(Drop(s, 2), a, b, r)
         ELSE <<s[1]>> \o Replace2(Tail(s), a, b, r)

\* s.rstrip()
RECURSIVE RStrip(_)
RStrip(s) ==
    IF s # <<>> /\ IsSpace(s[Len(s)]) THEN RStrip(SubSeq(s, 1, Len(s) - 1)) ELSE s

\* s.lstrip()
RECURSIVE LStrip(_)
LStrip(s) == IF s # <<>> /\ IsSpace(s[1]) THEN LStrip(Tail(s)) ELSE s

\* s.strip()
Strip(s) == LStrip(RStrip(s))

\* s.splitlines(): lines end at "\n", "\r" or "\r\n"; the terminators are
\* dropped and a terminator at the very end opens no further (empty) line.
RECURSIVE SplitLinesFrom(_, _)
SplitLinesFrom(s, cur) ==
    IF s = <<>> THEN (IF cur = <<>> THEN <<>> ELSE <<cur>>)
    ELSE IF s[1] = CR /\ Len(s) >= 2 /\ s[2] = NL
         THEN <<cur>> \o SplitLinesFrom(Drop(s, 2), <<>>)
    ELSE IF s[1] = NL \/ s[1] = CR
         THEN <<cur>> \o SplitLinesFrom(Tail(s), <<>>)
    ELSE SplitLinesFrom(Tail(s), Append(cur, s[1]))

SplitLines(s) == SplitLinesFrom(s, <<>>)

\* "\n".join(lines)
RECURSIVE JoinNL(_)
JoinNL(lines) ==
    IF lines = <<>> THEN <<>>
    ELSE IF Len(lines) = 1 THEN lines[1]
    ELSE lines[1] \o <<NL>> \o JoinNL(Tail(lines))

\* ------------------------------------------------------- CommandNormalizer

\* _unwrap_outer_quotes: first and last character are the same quote.
_unwrap_outer_quotes(cmd) ==
    IF Len(cmd) >= 2
       /\ ((cmd[1] = DQ /\ cmd[Len(cmd)] = DQ) \/ (cmd[1] = SQ /\ cmd[Len(cmd)] = SQ))
    THEN SubSeq(cmd, 2, Len(cmd) - 1)
    ELSE cmd

\* cmd.replace("\\n", "\n").replace("\\t", "\t").replace("\\r", "\r")
DecodeEscapes(cmd) ==
    Replace2(Replace2(Replace2(cmd, BS, "n", NL), BS, "t", TAB), BS, "r", CR)

\* if "<<" in cmd and not cmd.endswith("\n"): cmd = cmd + "\n"
HeredocNewline(cmd) ==
    IF Contains(cmd, <<LT, LT>>) /\ ~EndsWith(cmd, <<NL>>) THEN cmd \o <<NL>> ELSE cmd

\* "\n".join(ln.rstrip() for ln in cmd.splitlines())
TrimLines(cmd) ==
    LET lines == SplitLines(cmd)
    IN  JoinNL([k \in 1 .. Len(lines) |-> RStrip(lines[k])])

normalize_command(cmd) == TrimLines(HeredocNewline(DecodeEscapes(_unwrap_outer_quotes(cmd))))

\* ------------------------------------------------- regular expressions (re)

\* A pattern is a sequence of items [k, c]:
\*   "lit"  the character c          "b"     \b
\*   "plus" one or more of class c   "star"  zero or more of class c
\* with the classes "s" (\s), "S" (\S), "w-" ([\w-]) and "." (any but "\n").
InClass(cls, ch) ==
    CASE cls = "s" -> IsSpace(ch)
      [] cls = "S" -> ~IsSpace(ch)
      [] cls = "w-" -> IsWord(ch) \/ ch = "-"
      [] OTHER -> ch # NL

\* \b at position i (between s[i-1] and s[i]): exactly one side is a word
\* character; the ends of the string count as non-word.
AtBoundary(s, i) ==
    (i >= 2 /\ i - 1 <= Len(s) /\ IsWord(s[i - 1])) # (i <= Len(s) /\ IsWord(s[i]))

Lit(str) == [k \in 1 .. Len(str) |-> [k |-> "lit", c |-> str[k]]]
WordB == <<[k |-> "b", c |-> ""]>>
Plus(cls) == <<[k |-> "plus", c |-> cls]>>
Star(cls) == <<[k |-> "star", c |-> cls]>>

\* Whether items k.. of pat match s from position i on (backtracking).
RECURSIVE MatchAt(_, _, _, _)
MatchAt(pat, k, s, i) ==
    IF k > Len(pat) THEN TRUE
    ELSE LET it == pat[k] IN
         CASE it.k = "lit" ->
                  i <= Len(s) /\ s[i] = it.c /\ MatchAt(pat, k + 1, s, i + 1)
           [] it.k = "b" ->
                  AtBoundary(s, i) /\ MatchAt(pat, k + 1, s, i)
           [] it.k = "plus" ->
                  \E j \in (i + 1) .. (Len(s) + 1) :
                      /\ \A m \in i .. (j - 1) : InClass(it.c, s[m])
                      /\ MatchAt(pat, k + 1, s, j)
           [] OTHER ->
                  \E j \in i .. (Len(s) + 1) :
                      /\ \A m \in i .. (j - 1) : InClass(it.c, s[m])
                      /\ MatchAt(pat, k + 1, s, j)

\* re.search(pat, s)
Search(pat, s) == \E i \in 1 .. (Len(s) + 1) : MatchAt(pat, 1, s, i)

\* ----------------------------------------------------------- RiskClassifier

RISKY_PATTERNS ==
    << \* \brm\s+-rf\s+/\b
       WordB \o Lit(<<"r", "m">>) \o Plus("s") \o Lit(<<"-", "r", "f">>)
             \o Plus("s") \o Lit(<<"/">>) \o WordB,
       \* \bmkfs\.
       WordB \o Lit(<<"m", "k", "f", "s", ".">>),
       \* \bdd\s+if=
       WordB \o Lit(<<"d", "d">>) \o Plus("s") \o Lit(<<"i", "f", "=">>),
       \* \b:>\s*/
       WordB \o Lit(<<":", ">">>) \o Star("s") \o Lit(<<"/">>),
       \* \bchmod\s+777\s+/(?:\S*)
       WordB \o Lit(<<"c", "h", "m", "o", "d">>) \o Plus("s")
             \o Lit(<<"7", "7", "7">>) \o Plus("s") \o Lit(<<"/">>) \o Star("S"),
       \* \bchown\s+-R\s+\S+\s+/(?:\S*)
       WordB \o Lit(<<"c", "h", "o", "w", "n">>) \o Plus("s") \o Lit(<<"-", "R">>)
             \o Plus("s") \o Plus("S") \o Plus("s") \o Lit(<<"/">>) \o Star("S"),
       \* \bparted\b
       WordB \o Lit(<<"p", "a", "r", "t", "e", "d">>) \o WordB,
       \* \bfdisk\b
       WordB \o Lit(<<"f", "d", "i", "s", "k">>) \o WordB,
       \* \bsudo\s+passwd\b
       WordB \o Lit(<<"s", "u", "d", "o">>) \o Plus("s")
             \o Lit(<<"p", "a", "s", "s", "w", "d">>) \o WordB,
       \* \biptables\b
       WordB \o Lit(<<"i", "p", "t", "a", "b", "l", "e", "s">>) \o WordB,
       \* \bufw\b.*\breset\b
       WordB \o Lit(<<"u", "f", "w">>) \o WordB \o Star(".")
             \o WordB \o Lit(<<"r", "e", "s", "e", "t">>) \o WordB >>

\* is_risky: some signature matches anywhere in the text.
is_risky(cmd) == \E p \in 1 .. Len(RISKY_PATTERNS) : Search(RISKY_PATTERNS[p], cmd)

\* placeholder_re = re.compile(r"<[\w-]+>")
placeholder_re == Lit(<<LT>>) \o Plus("w-") \o Lit(<<">">>)

\* placeholder_re.search(cmd) and "<<" not in cmd
IsPlaceholderSkip(cmd) == Search(placeholder_re, cmd) /\ ~Contains(cmd, <<LT, LT>>)

\* cmd.startswith("sudo") or is_risky(cmd)
LooksPrivileged(cmd) == StartsWith(cmd, <<"s", "u", "d", "o">>) \/ is_risky(cmd)

\* --------------------------------------------------------- ConfirmationGate

\* str.lower() on the letters an answer is typed with.
LowerChar(c) ==
    CASE c = "Y" -> "y" [] c = "E" -> "e" [] c = "S" -> "s" [] c = "N" -> "n"
      [] c = "O" -> "o" [] OTHER -> c

Lower(s) == [k \in 1 .. Len(s) |-> LowerChar(s[k])]

\* What input() can do at the prompt: return a typed line, or raise
\* EOFError / KeyboardInterrupt.
Answers ==
    { [kind |-> "line", text |-> <<"y">>],
      [kind |-> "line", text |-> <<"Y", "E", "S">>],
      [kind |-> "line", text |-> <<SP, "y", SP>>],
      [kind |-> "line", text |-> <<"n">>],
      [kind |-> "line", text |-> <<"y", "e">>],
      [kind |-> "line", text |-> <<>>],
      [kind |-> "eof", text |-> <<>>],
      [kind |-> "interrupt", text |-> <<>>] }

\* A faulty confirm, for comparison: anything but an explicit "n"/"no" counts
\* as consent, so an empty line is a yes.
confirm_DefaultYes(ans) ==
    /\ ans.kind = "line"
    /\ Lower(Strip(ans.text)) \notin {<<"n">>, <<"n", "o">>}

\* confirm: input(...).strip().lower() in {"y", "yes"}; False on EOFError and
\* KeyboardInterrupt.
confirm(ans) ==
    /\ ans.kind = "line"
    /\ Lower(Strip(ans.text)) \in {<<"y">>, <<"y", "e", "s">>}

\* ------------------------------------------------- the planner's commands

\* Raw command strings as the planner emits them (the elements of the list
\* run_commands is called with).
\* echo A
RawEchoA ==
    <<"e", "c", "h", "o", SP, "A">>
\* "echo B"  (wrapped in one pair of quotes by the planner)
RawEchoB ==
    <<DQ, "e", "c", "h", "o", SP, "B", DQ>>
\* false
RawFalse ==
    <<"f", "a", "l", "s", "e">>
\* cd /tmp
RawCd ==
    <<"c", "d", SP, "/", "t", "m", "p">>
\* pwd, with a trailing blank
RawPwd ==
    <<"p", "w", "d", SP>>
\* exit 3
RawExit ==
    <<"e", "x", "i", "t", SP, "3">>
\* printf x  (output without a trailing newline)
RawPrintf ==
    <<"p", "r", "i", "n", "t", "f", SP, "x">>
\* echo __CMD_EXIT:7  (an output line that begins with the sentinel)
RawSpoof7 ==
    <<"e", "c", "h", "o", SP, "_", "_", "C", "M", "D", "_", "E", "X", "I",
    "T", ":", "7">>
\* echo __CMD_EXIT:x  (a sentinel-like line with no integer after it)
RawSpoofX ==
    <<"e", "c", "h", "o", SP, "_", "_", "C", "M", "D", "_", "E", "X", "I",
    "T", ":", "x">>
\* rm -rf /tmp
RawRm ==
    <<"r", "m", SP, "-", "r", "f", SP, "/", "t", "m", "p">>
\* sudo rm <f>  (privileged, with an unresolved placeholder)
RawSudoPh ==
    <<"s", "u", "d", "o", SP, "r", "m", SP, LT, "f", ">">>
\* sudo tee f <<E\n<x>\nE  (a heredoc sent with literal backslash-n escapes)
RawHeredoc ==
    <<"s", "u", "d", "o", SP, "t", "e", "e", SP, "f", SP, LT, LT, "E", BS,
    "n", LT, "x", ">", BS, "n", "E">>
\* trap '' INT TERM  (bash ignores SIGINT and SIGTERM from here on)
RawTrap ==
    <<"t", "r", "a", "p", SP, SQ, SQ, SP, "I", "N", "T", SP, "T", "E", "R",
    "M">>
\* sleep inf  (a foreground command that never ends)
RawSleep ==
    <<"s", "l", "e", "e", "p", SP, "i", "n", "f">>

\* rm -rf /  (recursive delete of the filesystem root)
RawRmRoot ==
    <<"r", "m", SP, "-", "r", "f", SP, "/">>
\* rm -rf /home/user/tmp  (recursive delete of a deeper path)
RawRmDeep ==
    <<"r", "m", SP, "-", "r", "f", SP, "/", "h", "o", "m", "e", "/", "u", "s", "e", "r",
      "/", "t", "m", "p">>

Catalogue ==
    { RawEchoA, RawEchoB, RawFalse, RawCd, RawPwd, RawExit, RawPrintf,
      RawSpoof7, RawSpoofX, RawRm, RawSudoPh, RawHeredoc, RawTrap, RawSleep }

\* The command lists the spec's own end-to-end examples run.
Examples ==
    { <<RawEchoA, RawFalse, RawEchoB>>, <<RawCd, RawPwd>>,
      <<RawRmRoot>>, <<RawRmDeep>> }

\* ------------------------------------------------------------------ bounds

\* Longest list of commands one call of run_commands is given.
MaxCmds == 2

\* Longest raw string normalize_command is applied to on its own.
MaxLen == 4

\* ------------------------------------------------------------------- state

VARIABLES
    SAFE_MODE,   \* the module's gating flag (agent.py line 33)
    commands,    \* the argument of run_commands: raw command strings
    cmds,        \* per command: cmd = normalize_command(str(raw))
    skips,       \* per command: placeholder_re.search(cmd) and "<<" not in cmd
    privs,       \* per command: cmd.startswith("sudo") or is_risky(cmd)
    pc,          \* where run_commands stands
    i,           \* 1-based index of the command the for loop is at
    outputs,     \* the list outputs: one entry per append
    collected,   \* the list collected of the command being read
    exc,         \* the exception propagating out of the try block, or "none"
    shell,       \* the bash process: alive, hung, ignTerm, cwd, status, pid, stdinClosed
    stdin,       \* what was written to shell.stdin and bash has not read yet
    stdout,      \* what bash wrote to its stdout/stderr and readline has not returned yet
    spawned,     \* number of Popen calls so far
    truth,       \* history: per command, what bash really emitted and its real status
    asked,       \* history: indices of the commands confirm was called for
    ans,         \* history: what input() did in the confirm call just made, if any
    wlog,        \* history: every write to shell.stdin
    eofAt,       \* history: indices whose read loop ended on end-of-stream
    raw,         \* an input of normalize_command taken on its own
    once,        \* normalize_command(raw)
    twice,       \* normalize_command(normalize_command(raw))
    npc          \* how often normalize_command has been applied to raw

\* What a call of run_commands is given: the flag and the list, with what the
\* loop derives from each command.
inputVars == << SAFE_MODE, commands, cmds, skips, privs >>

vars ==
    << SAFE_MODE, commands, cmds, skips, privs, pc, i, outputs, collected, exc,
       shell, stdin, stdout, spawned, truth, asked, ans, wlog, eofAt,
       raw, once, twice, npc >>

harnessVars ==
    << SAFE_MODE, commands, cmds, skips, privs, pc, i, outputs, collected, exc,
       shell, stdin, stdout, spawned, truth, asked, ans, wlog, eofAt >>

normVars == << raw, once, twice, npc >>

\* All sequences over S of length 0 .. n.
SeqsUpTo(S, n) == UNION { [1 .. k -> S] : k \in 0 .. n }

\* --------------------------------------------------------------- the shell

\* A piece of output: its text, whether a newline ends it, and (history) the
\* command that printed it and whether the exit-status probe printed it.
Tok(t, nl, by, probe) == [t |-> t, nl |-> nl, by |-> by, probe |-> probe]

\* "__CMD_EXIT:" followed by the decimal status, as `echo __CMD_EXIT:$?` prints it.
SentTok(status) ==
    CASE status = 0 -> "__CMD_EXIT:0"
      [] status = 1 -> "__CMD_EXIT:1"
      [] status = 3 -> "__CMD_EXIT:3"
      [] OTHER -> "__CMD_EXIT:127"

\* The texts that begin with "__CMD_EXIT:" (line.startswith("__CMD_EXIT:")).
SentinelTexts ==
    { "__CMD_EXIT:0", "__CMD_EXIT:1", "__CMD_EXIT:3", "__CMD_EXIT:127",
      "__CMD_EXIT:7", "__CMD_EXIT:x" }

\* int(line.strip().split(":", 1)[1]); -1 stands for the ValueError int() raises.
ParseExit(line) ==
    IF Len(line) # 1 THEN -1
    ELSE CASE line[1].t = "__CMD_EXIT:0" -> 0
           [] line[1].t = "__CMD_EXIT:1" -> 1
           [] line[1].t = "__CMD_EXIT:3" -> 3
           [] line[1].t = "__CMD_EXIT:7" -> 7
           [] line[1].t = "__CMD_EXIT:127" -> 127
           [] OTHER -> -1

\* What bash does with a command text it reads: the output (text, newline),
\* the exit status and the effect on the shell itself.
Behaviour(cmd, cwd) ==
    CASE cmd = <<"e", "c", "h", "o", SP, "A">> ->
             [out |-> <<[t |-> "A", nl |-> TRUE]>>, status |-> 0, effect |-> "none"]
      [] cmd = <<"e", "c", "h", "o", SP, "B">> ->
             [out |-> <<[t |-> "B", nl |-> TRUE]>>, status |-> 0, effect |-> "none"]
      [] cmd = <<"f", "a", "l", "s", "e">> ->
             [out |-> <<>>, status |-> 1, effect |-> "none"]
      [] cmd = <<"c", "d", SP, "/", "t", "m", "p">> ->
             [out |-> <<>>, status |-> 0, effect |-> "cd"]
      [] cmd = <<"p", "w", "d">> ->
             [out |-> <<[t |-> cwd, nl |-> TRUE]>>, status |-> 0, effect |-> "none"]
      [] cmd = <<"e", "x", "i", "t", SP, "3">> ->
             [out |-> <<>>, status |-> 3, effect |-> "exit"]
      [] cmd = <<"p", "r", "i", "n", "t", "f", SP, "x">> ->
             [out |-> <<[t |-> "x", nl |-> FALSE]>>, status |-> 0, effect |-> "none"]
      [] cmd = RawSpoof7 ->
             [out |-> <<[t |-> "__CMD_EXIT:7", nl |-> TRUE]>>, status |-> 0,
              effect |-> "none"]
      [] cmd = RawSpoofX ->
             [out |-> <<[t |-> "__CMD_EXIT:x", nl |-> TRUE]>>, status |-> 0,
              effect |-> "none"]
      [] cmd = RawRm ->
             [out |-> <<>>, status |-> 0, effect |-> "none"]
      [] cmd = RawRmDeep ->
             [out |-> <<>>, status |-> 0, effect |-> "none"]
      [] cmd = RawRmRoot ->
             [out |-> <<[t |-> "rm: it is dangerous to operate recursively on '/'",
                         nl |-> TRUE]>>,
              status |-> 1, effect |-> "none"]
      [] cmd = <<"s", "u", "d", "o", SP, "t", "e", "e", SP, "f", SP, LT, LT, "E", NL,
                 LT, "x", ">", NL, "E">> ->
             [out |-> <<[t |-> "<x>", nl |-> TRUE]>>, status |-> 0, effect |-> "none"]
      [] cmd = RawTrap ->
             [out |-> <<>>, status |-> 0, effect |-> "trap"]
      [] cmd = RawSleep ->
             [out |-> <<>>, status |-> 0, effect |-> "hang"]
      [] OTHER ->
             [out |-> <<[t |-> "bash: command not found", nl |-> TRUE]>>,
              status |-> 127, effect |-> "none"]

\* The process Popen(["bash", "-l"], ...) starts.
FreshShell(pid) ==
    [alive |-> TRUE, hung |-> FALSE, ignTerm |-> FALSE, cwd |-> "~", status |-> 0,
     pid |-> pid, stdinClosed |-> FALSE]

NoShell ==
    [alive |-> FALSE, hung |-> FALSE, ignTerm |-> FALSE, cwd |-> "~", status |-> 0,
     pid |-> 0, stdinClosed |-> FALSE]

NoAnswer == [kind |-> "none", text |-> <<>>]

NoTruth == [ran |-> FALSE, out |-> <<>>, status |-> 0, pid |-> 0, cwd |-> "~"]

\* bash reads the next thing written to its stdin and runs it: a command of the
\* list, or the probe `echo __CMD_EXIT:$?`.
ShellRun ==
    /\ shell.alive /\ ~shell.hung /\ stdin # <<>>
    /\ LET u == Head(stdin)
           b == Behaviour(u.text, shell.cwd)
           emitted == [k \in 1 .. Len(b.out) |-> Tok(b.out[k].t, b.out[k].nl, u.idx, FALSE)]
       IN  IF u.kind = "probe"
           THEN /\ stdout' = Append(stdout, Tok(SentTok(shell.status), TRUE, u.idx, TRUE))
                /\ shell' = [shell EXCEPT !.status = 0]
                /\ stdin' = Tail(stdin)
                /\ truth' = truth
           ELSE /\ stdout' = stdout \o emitted
                /\ truth' = [truth EXCEPT ![u.idx] =
                                 [ran |-> TRUE, out |-> emitted, status |-> b.status,
                                  pid |-> shell.pid, cwd |-> shell.cwd]]
                /\ shell' = [shell EXCEPT
                                 !.status = b.status,
                                 !.cwd = IF b.effect = "cd" THEN "/tmp" ELSE @,
                                 !.alive = (b.effect # "exit"),
                                 !.hung = (b.effect = "hang"),
                                 !.ignTerm = (@ \/ b.effect = "trap")]
                /\ stdin' = IF b.effect = "exit" THEN <<>> ELSE Tail(stdin)
    /\ UNCHANGED << inputVars, pc, i, outputs, collected, exc, spawned, asked, ans,
                    wlog, eofAt, normVars >>

\* bash reads end-of-file on its stdin (the harness closed it) and exits.
ShellEOF ==
    /\ shell.alive /\ ~shell.hung /\ stdin = <<>> /\ shell.stdinClosed
    /\ shell' = [shell EXCEPT !.alive = FALSE]
    /\ UNCHANGED << inputVars, pc, i, outputs, collected, exc, stdin, stdout, spawned,
                    truth, asked, ans, wlog, eofAt, normVars >>

\* ------------------------------------------------------------ run_commands

\* cmd, for the command the loop is at.
Cur == cmds[i]

\* One element of outputs: the "$ cmd" header, the fate, the collected lines,
\* exit_code, and the "[Error] Command failed with code N" annotation (<<N>>
\* when present, <<>> when not).
Entry(cmd, kind, lines, code) ==
    [cmd |-> cmd, kind |-> kind, lines |-> lines, code |-> code,
     err |-> IF code # 0 THEN <<code>> ELSE <<>>]

\* if SAFE_MODE and (cmd.startswith("sudo") or is_risky(cmd))
NeedsConfirm(k) == SAFE_MODE /\ privs[k]

\* shell = subprocess.Popen(["bash", "-l"], ...): once, before the loop.
Spawn ==
    /\ pc = "start"
    /\ spawned' = spawned + 1
    /\ shell' = FreshShell(spawned + 1)
    /\ pc' = "loop"
    /\ UNCHANGED << inputVars, i, outputs, collected, exc, stdin, stdout, truth, asked,
                    ans, wlog, eofAt, normVars >>

\* The for loop is exhausted: on to the finally block.
LoopExit ==
    /\ pc = "loop" /\ i > Len(commands)
    /\ pc' = "finally"
    /\ ans' = NoAnswer
    /\ UNCHANGED << inputVars, i, outputs, collected, exc, shell, stdin, stdout,
                    spawned, truth, asked, wlog, eofAt, normVars >>

\* if placeholder_re.search(cmd) and "<<" not in cmd: ...; continue
SkipPlaceholder ==
    /\ pc = "loop" /\ i <= Len(commands)
    /\ skips[i]
    /\ outputs' = Append(outputs, Entry(Cur, "skipped_placeholder", <<>>, 0))
    /\ i' = i + 1
    /\ ans' = NoAnswer
    /\ UNCHANGED << inputVars, pc, collected, exc, shell, stdin, stdout, spawned, truth,
                    asked, wlog, eofAt, normVars >>

\* A faulty gate, for comparison: the risk check is made before the
\* placeholder check, so a privileged command is put to the operator even
\* when it holds a placeholder.
Gate_BeforePlaceholder ==
    /\ pc = "loop" /\ i <= Len(commands)
    /\ NeedsConfirm(i)
    /\ \E a \in Answers :
          /\ asked' = asked \cup {i}
          /\ ans' = a
          /\ IF confirm(a)
             THEN /\ pc' = "write_cmd"
                  /\ UNCHANGED << outputs, i >>
             ELSE /\ outputs' = Append(outputs, Entry(Cur, "skipped", <<>>, 0))
                  /\ i' = i + 1
                  /\ pc' = pc
    /\ UNCHANGED << inputVars, collected, exc, shell, stdin, stdout, spawned, truth,
                    wlog, eofAt, normVars >>

\* The gate: confirm(...) is called and the operator answers.
Gate ==
    /\ pc = "loop" /\ i <= Len(commands)
    /\ ~skips[i]
    /\ NeedsConfirm(i)
    /\ \E a \in Answers :
          /\ asked' = asked \cup {i}
          /\ ans' = a
          /\ IF confirm(a)
             THEN /\ pc' = "write_cmd"
                  /\ UNCHANGED << outputs, i >>
             ELSE /\ outputs' = Append(outputs, Entry(Cur, "skipped", <<>>, 0))
                  /\ i' = i + 1
                  /\ pc' = pc
    /\ UNCHANGED << inputVars, collected, exc, shell, stdin, stdout, spawned, truth,
                    wlog, eofAt, normVars >>

\* No gate for this command: straight to the write.
Proceed ==
    /\ pc = "loop" /\ i <= Len(commands)
    /\ ~skips[i]
    /\ ~NeedsConfirm(i)
    /\ pc' = "write_cmd"
    /\ ans' = NoAnswer
    /\ UNCHANGED << inputVars, i, outputs, collected, exc, shell, stdin, stdout,
                    spawned, truth, asked, wlog, eofAt, normVars >>

\* A faulty write, for comparison: every command gets a bash of its own (as
\* subprocess.run per command would), so nothing one command sets is there
\* for the next.
WriteCmd_FreshShell ==
    /\ pc = "write_cmd"
    /\ spawned' = spawned + 1
    /\ shell' = FreshShell(spawned + 1)
    /\ stdin' = <<[idx |-> i, kind |-> "cmd", text |-> Cur]>>
    /\ wlog' = Append(wlog, [idx |-> i, kind |-> "cmd", pid |-> spawned + 1])
    /\ pc' = "write_probe"
    /\ ans' = NoAnswer
    /\ UNCHANGED << inputVars, i, outputs, collected, exc, stdout, truth, asked,
                    eofAt, normVars >>

\* shell.stdin.write(cmd + "\n"); the pipe is line-buffered, so the text
\* reaches the pipe at once and a pipe whose reader has exited raises
\* BrokenPipeError.
WriteCmd ==
    /\ pc = "write_cmd"
    /\ IF shell.alive
       THEN /\ stdin' = Append(stdin, [idx |-> i, kind |-> "cmd", text |-> Cur])
            /\ wlog' = Append(wlog, [idx |-> i, kind |-> "cmd", pid |-> shell.pid])
            /\ pc' = "write_probe"
            /\ exc' = exc
       ELSE /\ exc' = "BrokenPipeError"
            /\ pc' = "finally"
            /\ UNCHANGED << stdin, wlog >>
    /\ ans' = NoAnswer
    /\ UNCHANGED << inputVars, i, outputs, collected, shell, stdout, spawned, truth,
                    asked, eofAt, normVars >>

\* shell.stdin.write("echo __CMD_EXIT:$?\n"); flush(); collected = []
WriteProbe ==
    /\ pc = "write_probe"
    /\ IF shell.alive
       THEN /\ stdin' = Append(stdin, [idx |-> i, kind |-> "probe", text |-> <<>>])
            /\ wlog' = Append(wlog, [idx |-> i, kind |-> "probe", pid |-> shell.pid])
            /\ pc' = "read"
            /\ collected' = <<>>
            /\ exc' = exc
       ELSE /\ exc' = "BrokenPipeError"
            /\ pc' = "finally"
            /\ UNCHANGED << stdin, wlog, collected >>
    /\ UNCHANGED << inputVars, i, outputs, shell, stdout, spawned, truth, asked, ans,
                    eofAt, normVars >>

\* Position of the first piece of stdout that ends a line, 0 if none.
FirstNL(out) ==
    IF \E k \in 1 .. Len(out) : out[k].nl
    THEN CHOOSE k \in 1 .. Len(out) : out[k].nl /\ \A m \in 1 .. (k - 1) : ~out[m].nl
    ELSE 0

\* readline() returns: a full line is there, or the stream has ended and
\* what is left (without a newline) is returned.
LineReady == FirstNL(stdout) > 0 \/ (~shell.alive /\ stdout # <<>>)

NextLine == IF FirstNL(stdout) > 0 THEN SubSeq(stdout, 1, FirstNL(stdout)) ELSE stdout

AfterLine == IF FirstNL(stdout) > 0 THEN Drop(stdout, FirstNL(stdout)) ELSE <<>>

\* line.startswith("__CMD_EXIT:")
IsSentinelLine(line) == line[1].t \in SentinelTexts

\* An ordinary line: print(line, end=""); collected.append(line)
ReadOutput ==
    /\ pc = "read" /\ LineReady
    /\ ~IsSentinelLine(NextLine)
    /\ collected' = Append(collected, NextLine)
    /\ stdout' = AfterLine
    /\ UNCHANGED << inputVars, pc, i, outputs, exc, shell, stdin, spawned, truth, asked,
                    ans, wlog, eofAt, normVars >>

\* A line that starts with the sentinel: exit_code = int(...); break; then
\* the entry is built and appended, with the annotation when exit_code != 0.
ReadSentinel ==
    /\ pc = "read" /\ LineReady
    /\ IsSentinelLine(NextLine)
    /\ ParseExit(NextLine) >= 0
    /\ outputs' = Append(outputs, Entry(Cur, "ran", collected, ParseExit(NextLine)))
    /\ stdout' = AfterLine
    /\ i' = i + 1
    /\ pc' = "loop"
    /\ UNCHANGED << inputVars, collected, exc, shell, stdin, spawned, truth, asked, ans,
                    wlog, eofAt, normVars >>

\* A line that starts with the sentinel and has no integer after it: int()
\* raises ValueError, which leaves the try block.
ReadBadSentinel ==
    /\ pc = "read" /\ LineReady
    /\ IsSentinelLine(NextLine)
    /\ ParseExit(NextLine) < 0
    /\ stdout' = AfterLine
    /\ exc' = "ValueError"
    /\ pc' = "finally"
    /\ UNCHANGED << inputVars, i, outputs, collected, shell, stdin, spawned, truth,
                    asked, ans, wlog, eofAt, normVars >>

\* readline() returns "": break with exit_code still 0, and the entry is
\* appended like any other.
ReadEOF ==
    /\ pc = "read"
    /\ ~shell.alive /\ stdout = <<>>
    /\ outputs' = Append(outputs, Entry(Cur, "ran", collected, 0))
    /\ eofAt' = eofAt \cup {i}
    /\ i' = i + 1
    /\ pc' = "loop"
    /\ UNCHANGED << inputVars, collected, exc, shell, stdin, stdout, spawned, truth,
                    asked, ans, wlog, normVars >>

\* The operator interrupts the blocking readline() (no line to return yet,
\* the stream still open): KeyboardInterrupt leaves the try block.
Interrupt ==
    /\ pc = "read"
    /\ ~LineReady /\ shell.alive
    /\ exc' = "KeyboardInterrupt"
    /\ pc' = "finally"
    /\ UNCHANGED << inputVars, i, outputs, collected, shell, stdin, stdout, spawned,
                    truth, asked, ans, wlog, eofAt, normVars >>

\* finally: try: shell.stdin.close() except Exception: pass; shell.terminate():
\* the pipe is closed and SIGTERM sent, which ends bash unless bash ignores it.
\* Nothing else: no second, forced signal is ever sent.
Teardown ==
    /\ pc = "finally"
    /\ shell' = [shell EXCEPT !.stdinClosed = TRUE, !.alive = (@ /\ shell.ignTerm)]
    /\ stdin' = IF shell.ignTerm THEN stdin ELSE <<>>
    /\ pc' = "wait"
    /\ UNCHANGED << inputVars, i, outputs, collected, exc, stdout, spawned, truth,
                    asked, ans, wlog, eofAt, normVars >>

\* shell.wait() returns once bash has exited; then return "\n".join(outputs),
\* or the pending exception propagates to the caller.
Wait ==
    /\ pc = "wait"
    /\ ~shell.alive
    /\ pc' = IF exc = "none" THEN "returned" ELSE "raised"
    /\ UNCHANGED << inputVars, i, outputs, collected, exc, shell, stdin, stdout,
                    spawned, truth, asked, ans, wlog, eofAt, normVars >>

\* ------------------------------------------- normalize_command on its own

\* The characters raw strings are drawn from.
NormAlphabet == { DQ, SQ, "a", SP, NL, CR, LT, BS, "n", "t" }

NormOnce ==
    /\ npc = 0
    /\ once' = normalize_command(raw)
    /\ npc' = 1
    /\ UNCHANGED << raw, twice, harnessVars >>

NormTwice ==
    /\ npc = 1
    /\ twice' = normalize_command(once)
    /\ npc' = 2
    /\ UNCHANGED << raw, once, harnessVars >>

\* ---------------------------------------------------------- specifications

HarnessIdle ==
    /\ SAFE_MODE = FALSE /\ commands = <<>> /\ pc = "idle" /\ i = 1
    /\ cmds = <<>> /\ skips = <<>> /\ privs = <<>>
    /\ outputs = <<>> /\ collected = <<>> /\ exc = "none"
    /\ shell = NoShell /\ stdin = <<>> /\ stdout = <<>> /\ spawned = 0
    /\ truth = <<>> /\ asked = {} /\ ans = NoAnswer /\ wlog = <<>> /\ eofAt = {}

NormIdle == raw = <<>> /\ once = <<>> /\ twice = <<>> /\ npc = -1

\* run_commands(commands) is entered: outputs = [], nothing spawned yet.
\* normalize_command and the two checks on its result are pure functions of
\* the raw command, so what the loop computes for the k-th command is fixed
\* by the list: it is computed here, once, and the loop reads it.
Init ==
    /\ SAFE_MODE \in BOOLEAN
    /\ commands \in (SeqsUpTo(Catalogue, MaxCmds) \ {<<>>}) \cup Examples
    /\ cmds = [k \in 1 .. Len(commands) |-> normalize_command(commands[k])]
    /\ skips = [k \in 1 .. Len(commands) |-> IsPlaceholderSkip(cmds[k])]
    /\ privs = [k \in 1 .. Len(commands) |-> LooksPrivileged(cmds[k])]
    /\ pc = "start" /\ i = 1
    /\ outputs = <<>> /\ collected = <<>> /\ exc = "none"
    /\ shell = NoShell /\ stdin = <<>> /\ stdout = <<>> /\ spawned = 0
    /\ truth = [k \in 1 .. Len(commands) |-> NoTruth]
    /\ asked = {} /\ ans = NoAnswer
    /\ wlog = <<>> /\ eofAt = {}
    /\ NormIdle

HarnessStep ==
    \/ Spawn \/ LoopExit \/ SkipPlaceholder \/ Gate \/ Proceed
    \/ WriteCmd \/ WriteProbe
    \/ ReadOutput \/ ReadSentinel \/ ReadBadSentinel \/ ReadEOF
    \/ Teardown \/ Wait

ShellStep == ShellRun \/ ShellEOF

Next == HarnessStep \/ ShellStep \/ Interrupt

Spec == Init /\ [][Next]_vars

\* The harness and bash are two running processes: each takes its next step
\* when it has one.  The operator's interrupt is under no obligation.
FairSpec == Spec /\ WF_vars(HarnessStep) /\ WF_vars(ShellStep)

\* The strings the documentation of the normalizer speaks of:
\* "echo hi" (wrapped), echo "hi" (inner quotes only), "'a'" (two layers)
\* and "a" && "b" (two quoted words).
NormWrapped == <<DQ, "e", "c", "h", "o", SP, "h", "i", DQ>>

NormInner == <<"e", "c", "h", "o", SP, DQ, "h", "i", DQ>>

NormTwoLayers == <<DQ, SQ, "a", SQ, DQ>>

NormTwoWords == <<DQ, "a", DQ, SP, "&", "&", SP, DQ, "b", DQ>>

NormExamples == { NormWrapped, NormInner, NormTwoLayers, NormTwoWords }

NormInit ==
    /\ raw \in SeqsUpTo(NormAlphabet, MaxLen) \cup NormExamples
    /\ once = <<>> /\ twice = <<>> /\ npc = 0
    /\ HarnessIdle

NormNext == NormOnce \/ NormTwice

NormSpec == NormInit /\ [][NormNext]_vars

\* ------------------------------------------------------ reading the history

\* The normalized text of the k-th command of the list.
CmdAt(k) == cmds[k]

\* "".join(lines): the pieces of the lines, in order.
RECURSIVE Flatten(_)
Flatten(lines) == IF lines = <<>> THEN <<>> ELSE Head(lines) \o Flatten(Tail(lines))

\* The texts of a sequence of pieces.
Texts(toks) == [k \in 1 .. Len(toks) |-> toks[k].t]

\* Something of command k was written to shell.stdin.
Written(k) == \E w \in 1 .. Len(wlog) : wlog[w].idx = k

\* run_commands is over: it returned the transcript, or an exception left it.
Finished == pc \in {"returned", "raised"}

\* The loop has taken command k past the two skip checks.
PastChecks(k) == k < i \/ (k = i /\ pc \notin {"start", "loop"})

\* ------------------------------------------------------------------ claims

\* C1 (as claimed): for every command that was run and whose sentinel was
\* read, the recorded lines are exactly what bash emitted while running it,
\* the recorded exit status is that command's own status, and no line the
\* exit-status probe printed is ever collected as output.
C1_SentinelSync ==
    /\ \A k \in 1 .. Len(outputs) :
          (outputs[k].kind = "ran" /\ k \notin eofAt) =>
              /\ Flatten(outputs[k].lines) = truth[k].out
              /\ outputs[k].code = truth[k].status
    /\ \A k \in 1 .. Len(collected) :
          \A m \in 1 .. Len(collected[k]) : ~collected[k][m].probe

\* C2 (as claimed): a command that ran to its end with status n # 0 is
\* recorded with code n and the annotation carrying n, a command that ended
\* with status 0 has no annotation, and a failed command does not abort the
\* run: unless the operator interrupts, every command of the list gets its
\* entry.
C2_NonZeroExit ==
    /\ \A k \in 1 .. Len(outputs) :
          (outputs[k].kind = "ran" /\ k \notin eofAt /\ truth[k].ran) =>
              IF truth[k].status # 0
              THEN outputs[k].code = truth[k].status
                   /\ outputs[k].err = <<truth[k].status>>
              ELSE outputs[k].err = <<>>
    /\ (Finished /\ exc # "KeyboardInterrupt"
          /\ \E k \in 1 .. Len(outputs) : outputs[k].kind = "ran" /\ outputs[k].code # 0)
       => Len(outputs) = Len(commands)

\* C3 (as claimed): on every exit route other than the operator's interrupt
\* run_commands returns a transcript with exactly one entry per supplied
\* command, in submission order.
C3_OneEntryPerCommand ==
    (Finished /\ exc # "KeyboardInterrupt") =>
        /\ pc = "returned"
        /\ Len(outputs) = Len(commands)
        /\ \A k \in 1 .. Len(commands) : outputs[k].cmd = CmdAt(k)

\* C4 (as claimed): once the read for command k has ended on end-of-stream,
\* command k is not recorded as a completion with exit code 0 and no
\* annotation, no later command is written to the dead session, and at the
\* end every later command has an entry saying it failed to run.
C4_SessionDeath ==
    \A k \in eofAt :
        /\ ~(outputs[k].kind = "ran" /\ outputs[k].code = 0 /\ outputs[k].err = <<>>)
        /\ ~(pc \in {"write_cmd", "write_probe"} /\ i > k)
        /\ Finished =>
              /\ Len(outputs) = Len(commands)
              /\ \A j \in (k + 1) .. Len(commands) : outputs[j].kind = "failed"

\* C5 (as claimed): whenever the finally block is entered, bash is
\* eventually dead and run_commands eventually returns or propagates.
C5_TeardownCompletes ==
    (pc = "finally") ~> (Finished /\ ~shell.alive)

\* C6: a command with a placeholder and no "<<" is never written to the
\* shell, never put to confirm (whatever SAFE_MODE and the risk checks say),
\* and once the loop is past it its entry says Skipped-Placeholder; a command
\* containing "<<" never gets a Skipped-Placeholder entry.
C6_PlaceholderSkip ==
    \A k \in 1 .. Len(commands) :
        /\ skips[k] =>
              /\ ~Written(k)
              /\ k \notin asked
              /\ k < i => (k <= Len(outputs) /\ outputs[k].kind = "skipped_placeholder")
        /\ (Contains(CmdAt(k), <<LT, LT>>) /\ k <= Len(outputs)) =>
              outputs[k].kind # "skipped_placeholder"

\* C6 witness: with gating on, a privileged command with a placeholder was
\* skipped as a placeholder and the run went on to its end.
C6_Witness ==
    /\ pc = "returned" /\ SAFE_MODE
    /\ \E k \in 1 .. Len(outputs) :
          /\ privs[k]
          /\ outputs[k].kind = "skipped_placeholder"
          /\ \E j \in 1 .. Len(outputs) : outputs[j].kind = "ran" /\ Written(j)

\* The answers that are "y" or "yes" up to case and surrounding blanks.
Affirmative ==
    { [kind |-> "line", text |-> <<"y">>],
      [kind |-> "line", text |-> <<"Y", "E", "S">>],
      [kind |-> "line", text |-> <<SP, "y", SP>>] }

C9_HeredocEndsWithNewline ==
    (npc >= 1 /\ Contains(raw, <<LT, LT>>)) => EndsWith(once, <<NL>>)

\* A literal escape sequence: a backslash followed by n, t or r.
HasEscape(s) == \E k \in 1 .. (Len(s) - 1) : s[k] = BS /\ s[k + 1] \in {"n", "t", "r"}

\* The string is wrapped in an outer pair of matching quotes.
OuterQuoted(s) ==
    Len(s) >= 2 /\ s[1] \in {DQ, SQ} /\ s[Len(s)] = s[1]

\* C10 (as claimed): on an input with no literal escape sequence and no
\* outer pair of matching quotes, applying normalize_command twice gives
\* what applying it once gives.
C10_Idempotent ==
    (npc = 2 /\ ~HasEscape(raw) /\ ~OuterQuoted(raw)) => twice = once

\* The number of positions of s that hold the character c.
CountOf(s, c) == Cardinality({ k \in 1 .. Len(s) : s[k] = c })

\* One pair of quotes wraps the whole of s: s opens with a quote and that
\* quote closes at the last character, not before.
WrapsWhole(s) ==
    /\ Len(s) >= 2 /\ s[1] \in {DQ, SQ} /\ s[Len(s)] = s[1]
    /\ \A k \in 2 .. (Len(s) - 1) : s[k] # s[1]

\* The first and the last character of s are quotes of different quoted
\* words: s holds only one kind of quote, an even number of them and four at
\* least (so they pair off left to right), and the words at both ends are not
\* empty.
TwoWords(s) ==
    /\ Len(s) >= 2 /\ s[1] \in {DQ, SQ} /\ s[Len(s)] = s[1]
    /\ CountOf(s, IF s[1] = DQ THEN SQ ELSE DQ) = 0
    /\ CountOf(s, s[1]) >= 4 /\ CountOf(s, s[1]) % 2 = 0
    /\ s[2] # s[1] /\ s[Len(s) - 1] # s[1]

\* s does not both open and close with the same quote: any quotes are inner.
NoOuterPair(s) == ~(Len(s) >= 2 /\ s[1] \in {DQ, SQ} /\ s[Len(s)] = s[1])

\* C11 (as claimed): on a string without backslashes, normalize removes
\* exactly the one pair of quotes that wraps the whole string, and leaves
\* the quotes alone when the string only has inner quotes or when its first
\* and last characters are quotes of different quoted words; the rest of the
\* normalizer then runs on that text.
C11_QuoteUnwrap ==
    (npc >= 1 /\ CountOf(raw, BS) = 0) =>
        /\ WrapsWhole(raw) =>
               once = TrimLines(HeredocNewline(SubSeq(raw, 2, Len(raw) - 1)))
        /\ (TwoWords(raw) \/ NoOuterPair(raw)) =>
               once = TrimLines(HeredocNewline(raw))

\* C12 (as claimed): whenever run_commands is given the recursive delete of
\* the filesystem root, is_risky flags it, and whenever it is given the
\* recursive delete of a deeper path, is_risky does not flag it; the flag the
\* loop derives for a command without the sudo prefix is is_risky's answer.
C12_RootDeleteFlagged ==
    \A k \in 1 .. Len(cmds) :
        /\ (cmds[k] = RawRmRoot) => (is_risky(cmds[k]) /\ privs[k])
        /\ (cmds[k] = RawRmDeep) => (~is_risky(cmds[k]) /\ ~privs[k])

\* The sentinel line of command k's exit-status probe has not been read yet:
\* the probe is still waiting in bash's stdin, or its line in the stdout pipe.
ProbePending(k) ==
    \/ \E u \in 1 .. Len(stdin) : stdin[u].idx = k /\ stdin[u].kind = "probe"
    \/ \E t \in 1 .. Len(stdout) : stdout[t].by = k /\ stdout[t].probe

\* C13 (as claimed): once a command and its probe are written, nothing of a
\* later command is written to the shell while the sentinel line of that
\* probe is still unread, and what bash has yet to run never belongs to two
\* commands of the list.
C13_OneInFlight ==
    /\ \A w \in 1 .. Len(wlog) :
          \A k \in 1 .. (wlog[w].idx - 1) : ~ProbePending(k)
    /\ \A a, b \in 1 .. Len(stdin) : stdin[a].idx = stdin[b].idx

====
